---------------------------- MODULE Spec2Model ----------------------------
(***************************************************************************)
(* A model of sudare (src/main.rs): a terminal multiplexer that runs one   *)
(* pseudo-terminal session per process group and composes the panes into   *)
(* one screen.                                                             *)
(*                                                                         *)
(* Six specifications are given.                                           *)
(*   Spec         the compositor: UiState, UiWindow, PtyTerminal and the   *)
(*                event loop of main, one action per turn of the loop      *)
(*                (the input's handler, render_to_screen and flush).       *)
(*   PersistSpec  save_state at exit, a new run of main over the same      *)
(*                Procfile or an edited one, load_state.                   *)
(*   ScrollSpec   PtyTerminal::scroll_up and scroll_down on one pane.      *)
(*   ParseSpec    parse_procfile on the lines of a Procfile.               *)
(*   PollSpec     PtyProcess::poll dequeue by dequeue, with the reader     *)
(*                thread sending while it runs.                            *)
(*   SessionSpec  the PtyProcess of one window at the level of its         *)
(*                threads: the main thread's steps through set_active,     *)
(*                PtyProcess::new, poll and drop, the reader thread and    *)
(*                the child process.                                       *)
(*                                                                         *)
(* Indices are 0-based as in the source; a Rust Option is a sequence of    *)
(* length 0 (None) or 1 (Some).  The terminal emulator (wezterm_term) is   *)
(* an external collaborator: a pane keeps only what the code reads from    *)
(* it, the viewport rows (get_size().rows, screen().physical_rows) and the *)
(* number of retained lines (screen().scrollback_rows()).                  *)
(***************************************************************************)
EXTENDS Integers, Sequences, FiniteSets, TLC

VARIABLES
    procfile,              \* the parsed Procfile (read-only after start)
    file,                  \* the persisted session file in the cache directory
    pc,                    \* main: start, loop, exited, failed, panicked, wrapped
    panic,                 \* the panic message when pc = "panicked"
    windows,               \* UiState.windows
    focused_window_index,  \* UiState.focused_window_index
    repaint,               \* UiState.repaint
    surface_rows,          \* height of UiState.surface (set once in UiState::new)
    screen_rows,           \* height of the BufferedTerminal's surface
    screen,                \* cells of the BufferedTerminal's surface, by row
    flushed,               \* what the last buf.flush() sent to the terminal
    layout,                \* the (y, h) given to each window by the last frame
    last,                  \* history: what main did last
    quiet,                 \* history: nothing changed between the last two frames
    saved                  \* history: focus and labels at the time of save_state

uivars == <<procfile, file, pc, panic, windows, focused_window_index, repaint,
            surface_rows, screen_rows, screen, flushed, layout, last, quiet, saved>>

VARIABLES
    scroll                 \* ScrollSpec: the pane, the calls made and to be made

scrollvars == <<scroll>>

VARIABLES
    main,                  \* SessionSpec: position of the main thread
    request,               \* the index given to the last set_active call
    active,                \* UiWindow.active_process_index (0 Null, 1 the command)
    pane,                  \* the PtyProcess of UiWindow.pty_terminal, if any
    dropping,              \* the PtyProcess being dropped, if any
    building,              \* the PtyProcess PtyProcess::new is making, if any
    sessions,              \* every pty pair opened so far, by number
    fresh                  \* how many pty pairs were opened so far

sessvars == <<main, request, active, pane, dropping, building, sessions, fresh>>

VARIABLES
    parse                  \* ParseSpec: the lines of a Procfile and what came of them

parsevars == <<parse>>

VARIABLES
    drain                  \* PollSpec: one PtyProcess, its channel and its poll calls

pollvars == <<drain>>

vars == <<uivars, scrollvars, sessvars, parsevars, pollvars>>

-----------------------------------------------------------------------------
(* Bounds of the model *)

\* most groups in a Procfile
MaxWindows == 2
\* most commands of one group
MaxCommands == 1
\* most commands of one group in the persistence checks
MaxLabels == 2
\* most scroll_up calls in a row
MaxScrolls == 3
\* most lines of a Procfile
MaxLines == 3
\* most pty pairs one window opens in a run
MaxSessions == 2
\* most chunks waiting in a pty, and most messages waiting in a channel
MaxChunks == 1
\* most poll calls on one PtyProcess after its child exited
MaxPolls == 2
\* tallest terminal
MaxHeight == 7
\* the size at which poll stops draining (16384 bytes in the source; the
\* model keeps the rule and scales the number)
PollCap == 4
\* most bytes of one message (the reader thread's buffer, 1024 bytes in the
\* source, scaled)
ChunkBytes == 2
\* most messages waiting in the channel of the poll checks
MaxQueued == 2
\* lines the emulator retains above the viewport (TermConfig.scroll_back is
\* 1000 in the source; the model keeps the rule and scales the number)
MaxScrollBack == 2
\* largest digit key (the source accepts 0..9)
MaxDigit == 3

\* Process::label of the Null member
DEFAULT_TITLE == "disable"
\* UiState.min_window_height
min_window_height == 2

None == <<>>
Some(x) == <<x>>
IsSome(o) == Len(o) = 1
Unwrap(o) == o[1]

\* slice.get(i) with a 0-based index
Get(s, i) == IF i >= 0 /\ i < Len(s) THEN Some(s[i + 1]) ELSE None

\* usize::saturating_sub
saturating_sub(a, b) == IF a >= b THEN a - b ELSE 0

\* group titles in configuration order, and the same titles in the order a
\* BTreeMap<String, _> iterates them
GroupTitles == <<"web", "db", "api", "job">>
TitleOrder == <<"api", "db", "job", "web">>
\* the labels of a group's commands in the compositor's Procfiles, and the
\* labels the persistence checks draw from ("disable" is also Null's label)
CanonicalLabels == <<"default", "worker", "extra">>
CommandLabels == {"default", "disable"}
Heights == {2, MaxHeight - 1, MaxHeight}

-----------------------------------------------------------------------------
(* Procfile: ProcessGroup and Process *)

NullProcess == [null |-> TRUE, label |-> ""]
Command(l) == [null |-> FALSE, label |-> l]

\* Process::label
Label(p) == IF p.null THEN DEFAULT_TITLE ELSE p.label

\* the members parse_procfile builds for one title: Null, then the commands
Members(labels) == <<NullProcess>> \o [i \in 1..Len(labels) |-> Command(labels[i])]

LabelLists == UNION {[1..k -> CommandLabels] : k \in 1..MaxLabels}

\* Procfiles with any labels: up to MaxWindows groups with distinct titles
\* (parse_procfile merges the lines of one title)
LabelledProcfiles ==
    UNION {{[i \in 1..n |-> [title |-> GroupTitles[i], members |-> Members(f[i])]] :
                f \in [1..n -> LabelLists]} : n \in 0..MaxWindows}

\* the same with distinct labels within a group
Procfiles ==
    UNION {{[i \in 1..n |-> [title |-> GroupTitles[i],
                             members |-> Members(SubSeq(CanonicalLabels, 1, f[i]))]] :
                f \in [1..n -> 1..MaxCommands]} : n \in 0..MaxWindows}

-----------------------------------------------------------------------------
(* PtyTerminal: the emulator's row counts and the scroll offset.  The       *)
(* PtyProcess behind the pane is followed in SessionSpec; here it is the   *)
(* source of the bytes poll returns.                                       *)

\* Terminal::resize as seen by the code: the viewport takes the new height
\* (at least one row) and the emulator reflows, keeping between h and
\* h + scroll_back lines
Terminal_resize(t, h) ==
    LET r == IF h < 1 THEN 1 ELSE h
    IN  {[t EXCEPT !.rows = r, !.lines = l] : l \in r..(r + MaxScrollBack)}

\* Terminal::advance_bytes as seen by the code: the output may add a line
\* (the oldest is evicted at capacity), leave the line count alone, or drop
\* the scrollback (erase-scrollback, alternate screen)
Terminal_advance_bytes(t) ==
    LET grown == IF t.lines < t.rows + MaxScrollBack THEN t.lines + 1 ELSE t.lines
    IN  {[t EXCEPT !.lines = l] : l \in {t.lines, grown, t.rows}}

PtyTerminal_new(dimension_rows) ==
    [rows |-> dimension_rows, lines |-> dimension_rows, scroll_offset |-> 0]

PtyTerminal_scroll_up(t) ==
    IF t.scroll_offset > -(t.lines - t.rows)
    THEN [t EXCEPT !.scroll_offset = @ - 1]
    ELSE t

\* scroll_down as it would be if it jumped back to the live tail
PtyTerminal_scroll_down_to_tail(t) == [t EXCEPT !.scroll_offset = 0]

PtyTerminal_scroll_down(t) ==
    IF t.scroll_offset < 0
    THEN [t EXCEPT !.scroll_offset = @ + 1]
    ELSE t

PtyTerminal_reset_scroll(t) == [t EXCEPT !.scroll_offset = 0]

\* the outcomes of resize_soft(w, h): the emulator is resized only when its
\* size differs (the width is the same for every pane and is not modelled)
PtyTerminal_resize_soft(t, h) ==
    IF t.rows # h THEN Terminal_resize(t, h) ELSE {t}

\* the outcomes of PtyTerminal::poll: the buffer PtyProcess::poll returned
\* was empty, or it held child output or the exit marker and was fed to the
\* emulator
PtyTerminal_poll(t) ==
    {[t |-> t, got |-> FALSE]}
        \cup {[t |-> t2, got |-> TRUE] : t2 \in Terminal_advance_bytes(t)}

-----------------------------------------------------------------------------
(* UiWindow *)

UiWindow_new(process_group) ==
    [process_group |-> process_group, active_process_index |-> 0,
     pty_terminal |-> None]

UiWindow_get_active(w) ==
    LET m == Get(w.process_group.members, w.active_process_index)
    IN  IF IsSome(m) /\ ~Unwrap(m).null THEN m ELSE None

\* set_active as it would be if selecting Null kept the pane it found
UiWindow_set_active_keeping_pane(w, dimension_rows, index, spawned) ==
    LET m == Get(w.process_group.members, index)
    IN  IF IsSome(m)
        THEN [w EXCEPT !.active_process_index = index,
                       !.pty_terminal =
                           IF Unwrap(m).null THEN @
                           ELSE IF spawned THEN Some(PtyTerminal_new(dimension_rows))
                           ELSE None]
        ELSE w

\* set_active; spawned says whether PtyProcess::new returned Ok.  The old
\* pane is dropped before the new one is made (the order of the steps is
\* followed in SessionSpec).
UiWindow_set_active(w, dimension_rows, index, spawned) ==
    LET m == Get(w.process_group.members, index)
    IN  IF IsSome(m)
        THEN [w EXCEPT !.active_process_index = index,
                       !.pty_terminal =
                           IF ~Unwrap(m).null /\ spawned
                           THEN Some(PtyTerminal_new(dimension_rows))
                           ELSE None]
        ELSE w

\* scroll_up, scroll_down, reset_scroll forward to the pane when there is one
UiWindow_scroll_up(w) ==
    IF IsSome(w.pty_terminal)
    THEN [w EXCEPT !.pty_terminal = Some(PtyTerminal_scroll_up(Unwrap(@)))]
    ELSE w

UiWindow_scroll_down(w) ==
    IF IsSome(w.pty_terminal)
    THEN [w EXCEPT !.pty_terminal = Some(PtyTerminal_scroll_down(Unwrap(@)))]
    ELSE w

UiWindow_reset_scroll(w) ==
    IF IsSome(w.pty_terminal)
    THEN [w EXCEPT !.pty_terminal = Some(PtyTerminal_reset_scroll(Unwrap(@)))]
    ELSE w

\* the same as it would be if it always took the first window
SetFocused_first(ws, i, w) == [ws EXCEPT ![1] = w]

\* windows.get_mut(focused_window_index), with the window it finds replaced
\* by w
SetFocused(ws, i, w) == [ws EXCEPT ![i + 1] = w]

-----------------------------------------------------------------------------
(* UiState: focus, selection, scrolling *)

UiState_new_windows(pf) == [i \in 1..Len(pf) |-> UiWindow_new(pf[i])]

previous_window_index(i) == IF i > 0 THEN i - 1 ELSE 0

\* next_window as it would be without the comparison against the last index
next_window_index_unclamped(i, len) == i + 1

next_window_index(i, len) == IF i < saturating_sub(len, 1) THEN i + 1 ELSE i

\* find_window_by_title: the index of the first window with that title
find_window_by_title(ws, title) ==
    LET hits == {i \in 0..(Len(ws) - 1) : ws[i + 1].process_group.title = title}
    IN  IF hits = {} THEN None
        ELSE Some(CHOOSE i \in hits : \A j \in hits : i <= j)

\* members.iter().enumerate().find(|p| p.label() == label)
find_member_by_label(w, label) ==
    LET ms == w.process_group.members
        hits == {i \in 0..(Len(ms) - 1) : Label(ms[i + 1]) = label}
    IN  IF hits = {} THEN None
        ELSE Some(CHOOSE i \in hits : \A j \in hits : i <= j)

-----------------------------------------------------------------------------
(* Session persistence.  A BTreeMap<String, String> is a function on its   *)
(* keys; it is iterated in the order of its keys.                          *)

EmptyMap == [k \in {} |-> ""]
Insert(m, k, v) == [x \in (DOMAIN m) \cup {k} |-> IF x = k THEN v ELSE m[x]]
Keys(m) == SelectSeq(TitleOrder, LAMBDA k : k \in DOMAIN m)

\* the file: absent, present but not a SavedState record, or a JSON record
NoJson == [focused_group |-> "", entries |-> <<>>]
NoFile == [exists |-> FALSE, valid |-> FALSE, json |-> NoJson]
CorruptFile == [exists |-> TRUE, valid |-> FALSE, json |-> NoJson]
JsonFile(js) == [exists |-> TRUE, valid |-> TRUE, json |-> js]

RECURSIVE fold_active_processes(_, _, _)
fold_active_processes(ws, i, acc) ==
    IF i > Len(ws) THEN acc
    ELSE LET p == UiWindow_get_active(ws[i])
         IN  fold_active_processes(ws, i + 1,
                 IF IsSome(p)
                 THEN Insert(acc, ws[i].process_group.title, Label(Unwrap(p)))
                 ELSE acc)

\* the SavedState save_state serialises; windows is not empty here
SavedStateOf(ws, focused) ==
    [focused_group |-> ws[focused + 1].process_group.title,
     active_processes |-> fold_active_processes(ws, 1, EmptyMap)]

\* serde_json::to_writer then from_reader of a SavedState: the two strings
\* maps become a JSON object and are read back key by key
to_json(st) ==
    [focused_group |-> st.focused_group,
     entries |-> [i \in 1..Len(Keys(st.active_processes)) |->
                    <<Keys(st.active_processes)[i],
                      st.active_processes[Keys(st.active_processes)[i]]>>]]

RECURSIVE from_entries(_, _, _)
from_entries(es, i, acc) ==
    IF i > Len(es) THEN acc
    ELSE from_entries(es, i + 1, Insert(acc, es[i][1], es[i][2]))

from_json(js) ==
    [focused_group |-> js.focused_group,
     active_processes |-> from_entries(js.entries, 1, EmptyMap)]

\* load_state's loop over state.active_processes; spawned[title] says
\* whether PtyProcess::new returns Ok for that window
RECURSIVE load_entries(_, _, _, _, _, _)
\* the loop as it would be if it ended at the first entry it cannot apply
load_entries_stopping(ws, dim, m, keys, i, spawned) ==
    IF i > Len(keys) THEN ws
    ELSE LET title == keys[i]
             found == find_window_by_title(ws, title)
         IN  IF IsSome(found)
                /\ IsSome(find_member_by_label(ws[Unwrap(found) + 1], m[title]))
             THEN load_entries(
                      [ws EXCEPT ![Unwrap(found) + 1] =
                          UiWindow_set_active(@, dim,
                              Unwrap(find_member_by_label(@, m[title])),
                              spawned[title])],
                      dim, m, keys, i + 1, spawned)
             ELSE ws

load_entries(ws, dim, m, keys, i, spawned) ==
    IF i > Len(keys) THEN ws
    ELSE LET title == keys[i]
             found == find_window_by_title(ws, title)
             ws2 == IF IsSome(found)
                    THEN LET w == ws[Unwrap(found) + 1]
                             mi == find_member_by_label(w, m[title])
                         IN  IF IsSome(mi)
                             THEN [ws EXCEPT ![Unwrap(found) + 1] =
                                      UiWindow_set_active(w, dim, Unwrap(mi),
                                                          spawned[title])]
                             ELSE ws
                    ELSE ws
         IN  load_entries(ws2, dim, m, keys, i + 1, spawned)

\* load_state as it would be if it did not restore the focus
load_focus_kept(ws, focused, st) == focused

load_focus(ws, focused, st) ==
    LET found == find_window_by_title(ws, st.focused_group)
    IN  IF IsSome(found) THEN Unwrap(found) ELSE focused

-----------------------------------------------------------------------------
(* Rendering.  A Surface is a function from its rows to what the row       *)
(* shows: a window's status line, a line of a pane, or nothing.            *)

Blank == [kind |-> "blank", win |-> "", a |-> 0, b |-> 0]
BlankSurface(h) == [r \in 0..(h - 1) |-> Blank]

\* the heights render_to_screen hands out (height >= unfocused_height here)
unfocused_height(n) == saturating_sub(n, 1) * (1 + min_window_height)

window_height(i, focused, height, n) ==
    IF i = focused THEN height - unfocused_height(n) ELSE 1 + min_window_height

\* the fold's y of window i (0-based): the heights of the windows above it
RECURSIVE window_y(_, _, _, _)
window_y(i, focused, height, n) ==
    IF i = 0 THEN 0
    ELSE window_y(i - 1, focused, height, n)
         + window_height(i - 1, focused, height, n)

\* UiWindow::render on the pane: resize_soft(w, h - 1), then poll.  The
\* outcomes carry whether the pane changed (it was resized or fed bytes).
UiWindow_render(w, h) ==
    IF ~IsSome(w.pty_terminal) THEN {[w |-> w, changed |-> FALSE]}
    ELSE LET t == Unwrap(w.pty_terminal)
         IN  UNION {{[w |-> [w EXCEPT !.pty_terminal = Some(p.t)],
                      changed |-> p.got \/ t.rows # h - 1]
                        : p \in PtyTerminal_poll(t1)}
                    : t1 \in PtyTerminal_resize_soft(t, h - 1)}

RECURSIVE render_windows(_, _, _, _, _)
render_windows(ws, i, focused, height, n) ==
    IF i >= n THEN {<<>>}
    ELSE {<<o>> \o rest :
            o \in UiWindow_render(ws[i + 1], window_height(i, focused, height, n)),
            rest \in render_windows(ws, i + 1, focused, height, n)}

\* what window i (0-based) draws on row r, if anything
window_cell(w, i, r, focused, height, n) ==
    LET y == window_y(i, focused, height, n)
        title == w.process_group.title
    IN  IF r = y
        THEN Some([kind |-> "status", win |-> title,
                   a |-> w.active_process_index,
                   b |-> IF i = focused THEN 1 ELSE 0])
        ELSE IF IsSome(w.pty_terminal) /\ r > y
                /\ r - y - 1 < Unwrap(w.pty_terminal).rows
        THEN LET t == Unwrap(w.pty_terminal)
                 row == t.lines - t.rows + t.scroll_offset + (r - y - 1)
             IN  Some([kind |-> "line", win |-> title,
                       a |-> IF row < 0 THEN 0 ELSE row, b |-> 0])
        ELSE None

\* the off-screen frame: windows are drawn in order, later ones over earlier
alt_screen(ws, focused, height) ==
    LET n == Len(ws)
        drawn(r) == {i \in 0..(n - 1) :
                        IsSome(window_cell(ws[i + 1], i, r, focused, height, n))}
    IN  [r \in 0..(height - 1) |->
            IF drawn(r) = {} THEN Blank
            ELSE LET i == CHOOSE i \in drawn(r) : \A j \in drawn(r) : j <= i
                 IN  Unwrap(window_cell(ws[i + 1], i, r, focused, height, n))]

\* Surface::diff_screens: the rows on which the two surfaces differ
diff_screens(old, new) == {r \in DOMAIN new : old[r] # new[r]}

\* render_to_screen as it would be if it left repaint set
repaint_left_set == TRUE

\* repaint after a frame was rendered
repaint_after_frame == FALSE

-----------------------------------------------------------------------------
(* UiState's methods, on the record of the fields they change *)

UiState_previous_window(u) ==
    LET i == u.focused_window_index
    IN  [u EXCEPT !.windows = IF i < Len(@)
                              THEN SetFocused(@, i, UiWindow_reset_scroll(@[i + 1]))
                              ELSE @,
                  !.focused_window_index = previous_window_index(i),
                  !.repaint = TRUE]

\* next_window as it would be without the call of reset_scroll
UiState_next_window_keeping_scroll(u) ==
    [u EXCEPT !.focused_window_index = next_window_index(@, Len(u.windows)),
              !.repaint = TRUE]

UiState_next_window(u) ==
    LET i == u.focused_window_index
    IN  [u EXCEPT !.windows = IF i < Len(@)
                              THEN SetFocused(@, i, UiWindow_reset_scroll(@[i + 1]))
                              ELSE @,
                  !.focused_window_index = next_window_index(i, Len(u.windows)),
                  !.repaint = TRUE]

\* spawned: whether PtyProcess::new returns Ok
UiState_select_process(u, dimension_rows, index, spawned) ==
    LET i == u.focused_window_index
    IN  [u EXCEPT !.windows =
                      IF i < Len(@)
                      THEN SetFocused(@, i, UiWindow_set_active(
                                                @[i + 1], dimension_rows, index, spawned))
                      ELSE @,
                  !.repaint = TRUE]

\* scroll_up as it would be without self.repaint = true
UiState_scroll_up_no_repaint(u) ==
    LET i == u.focused_window_index
    IN  [u EXCEPT !.windows = IF i < Len(@)
                              THEN SetFocused(@, i, UiWindow_scroll_up(@[i + 1]))
                              ELSE @]

UiState_scroll_up(u) ==
    LET i == u.focused_window_index
    IN  [u EXCEPT !.windows = IF i < Len(@)
                              THEN SetFocused(@, i, UiWindow_scroll_up(@[i + 1]))
                              ELSE @,
                  !.repaint = TRUE]

UiState_scroll_down(u) ==
    LET i == u.focused_window_index
    IN  [u EXCEPT !.windows = IF i < Len(@)
                              THEN SetFocused(@, i, UiWindow_scroll_down(@[i + 1]))
                              ELSE @,
                  !.repaint = TRUE]

-----------------------------------------------------------------------------
(* The compositor's state machine: main.  One action is one turn of the    *)
(* loop: the input is handled, then render_to_screen and buf.flush() run.  *)

\* the UiState fields the handlers change
Ui == [windows |-> windows, focused_window_index |-> focused_window_index,
       repaint |-> repaint]

\* focus and active labels, read off the windows (history for the round trip)
Snapshot(ws, focused) ==
    [focused_group |-> ws[focused + 1].process_group.title,
     labels |-> [i \in 1..Len(ws) |->
                   Label(ws[i].process_group.members[ws[i].active_process_index + 1])]]

\* the file a previous session left: none, a corrupt one, or the record of a
\* session that focused the last group and ran the first group's first command
InitFiles(pf) ==
    {NoFile, CorruptFile}
        \cup {JsonFile([focused_group |-> pf[Len(pf)].title,
                        entries |-> <<<<pf[1].title, Label(pf[1].members[2])>>>>])
                 : x \in IF Len(pf) > 0 THEN {1} ELSE {}}

\* UiState::new(procfile_hash, procfile, buf.dimensions())
InitUi ==
    /\ procfile \in Procfiles
    /\ file \in InitFiles(procfile)
    /\ pc = "start"
    /\ last = "new"
    /\ saved = None
    /\ windows = UiState_new_windows(procfile)
    /\ focused_window_index = 0
    /\ repaint = TRUE
    /\ surface_rows \in Heights
    /\ screen_rows = surface_rows
    /\ screen = BlankSurface(surface_rows)
    /\ flushed = None
    /\ layout = <<>>
    /\ quiet = FALSE
    /\ panic = ""

\* main: ui_state.load_state(&pty_system)?
LoadState ==
    /\ pc = "start"
    /\ last' = "load"
    /\ UNCHANGED <<procfile, file, panic, repaint, surface_rows, screen_rows,
                   screen, flushed, layout, quiet, saved, scrollvars, sessvars, parsevars, pollvars>>
    /\ IF ~file.exists
       THEN /\ pc' = "loop"
            /\ UNCHANGED <<windows, focused_window_index>>
       ELSE IF ~file.valid
       THEN /\ pc' = "failed"
            /\ UNCHANGED <<windows, focused_window_index>>
       ELSE LET st == from_json(file.json)
            IN  /\ pc' = "loop"
                /\ focused_window_index' =
                       load_focus(windows, focused_window_index, st)
                /\ \E spawned \in [DOMAIN st.active_processes -> BOOLEAN] :
                       windows' = load_entries(windows, surface_rows,
                                      st.active_processes,
                                      Keys(st.active_processes), 1, spawned)

\* A usize subtraction that goes below zero panics in a build with overflow
\* checks and wraps to a height near 2^64 in one without; main is not
\* followed past either.
\* render_to_screen(&mut buf); buf.flush() on the UiState u the handler left,
\* a buf of the given height and cells, and the ClearScreen changes main
\* queued in buf.  event: what the turn handled ("key", "resized", "idle").
Frame(u, height, cells, clears, event) ==
    LET n == Len(u.windows)
        focused == u.focused_window_index
        h(i) == window_height(i, focused, height, n)
    IN  /\ last' = event
        /\ screen_rows' = height
        /\ focused_window_index' = focused
        /\ UNCHANGED <<procfile, file, surface_rows, saved, scrollvars, sessvars, parsevars, pollvars>>
        /\ IF height < unfocused_height(n)
              \/ \E i \in 0..(n - 1) :
                    IsSome(u.windows[i + 1].pty_terminal) /\ h(i) < 1
           THEN /\ \E checked \in BOOLEAN :
                     /\ pc' = IF checked THEN "panicked" ELSE "wrapped"
                     /\ panic' = IF checked
                                 THEN "attempt to subtract with overflow"
                                 ELSE panic
                /\ windows' = u.windows
                /\ repaint' = u.repaint
                /\ screen' = cells
                /\ quiet' = FALSE
                /\ UNCHANGED <<flushed, layout>>
           ELSE \E outs \in render_windows(u.windows, 0, focused, height, n) :
                  LET ws == [i \in 1..n |-> outs[i].w]
                      alt == alt_screen(ws, focused, height)
                      base == IF u.repaint THEN BlankSurface(height) ELSE cells
                  IN  /\ windows' = ws
                      /\ layout' = [i \in 1..n |->
                            [y |-> window_y(i - 1, focused, height, n),
                             h |-> h(i - 1)]]
                      /\ flushed' = Some(
                            [clear |-> clears + (IF u.repaint THEN 1 ELSE 0),
                             cells |-> diff_screens(base, alt)])
                      /\ screen' = alt
                      /\ repaint' = repaint_after_frame
                      /\ quiet' = (/\ event = "idle"
                                   /\ IsSome(flushed)
                                   /\ \A i \in 1..n : ~outs[i].changed)
                      /\ pc' = "loop"
                      /\ UNCHANGED panic

\* 'p' / Up
PreviousWindow ==
    /\ pc = "loop"
    /\ Frame(UiState_previous_window(Ui), screen_rows, screen, 0, "key")

\* 'n' / Down
NextWindow ==
    /\ pc = "loop"
    /\ Frame(UiState_next_window(Ui), screen_rows, screen, 0, "key")

\* a digit key
SelectProcess(index) ==
    /\ pc = "loop"
    /\ \E spawned \in BOOLEAN :
         Frame(UiState_select_process(Ui, surface_rows, index, spawned),
               screen_rows, screen, 0, "key")

\* 'k'
ScrollUp ==
    /\ pc = "loop"
    /\ Frame(UiState_scroll_up(Ui), screen_rows, screen, 0, "key")

\* 'j'
ScrollDown ==
    /\ pc = "loop"
    /\ Frame(UiState_scroll_down(Ui), screen_rows, screen, 0, "key")

\* InputEvent::Resized: buf.add_change(ClearScreen); buf.resize(cols, rows)
Resized(rows) ==
    /\ pc = "loop"
    /\ Frame(Ui, rows, BlankSurface(rows), 1, "resized")

\* Ok(None), or an input the loop ignores
Idle ==
    /\ pc = "loop"
    /\ Frame(Ui, screen_rows, screen, 0, "idle")

\* Escape: save_state()? and break.  save_state unwraps the focused window;
\* io says whether the cache directory and the file could be written.
Escape ==
    /\ pc = "loop"
    /\ last' = "escape"
    /\ UNCHANGED <<procfile, windows, focused_window_index, repaint, surface_rows,
                   screen_rows, screen, flushed, layout, quiet, scrollvars, sessvars, parsevars, pollvars>>
    /\ IF focused_window_index >= Len(windows)
       THEN /\ pc' = "panicked"
            /\ panic' = "called Option::unwrap() on a None value"
            /\ UNCHANGED <<file, saved>>
       ELSE \E io \in BOOLEAN :
              IF io
              THEN /\ file' = JsonFile(to_json(
                                 SavedStateOf(windows, focused_window_index)))
                   /\ saved' = Some(Snapshot(windows, focused_window_index))
                   /\ pc' = "exited"
                   /\ UNCHANGED panic
              ELSE /\ pc' = "failed"
                   /\ UNCHANGED <<file, saved, panic>>

\* poll_input returned Err: the loop breaks without saving
InputError ==
    /\ pc = "loop"
    /\ pc' = "exited"
    /\ last' = "error"
    /\ UNCHANGED <<procfile, file, panic, windows, focused_window_index, repaint,
                   surface_rows, screen_rows, screen, flushed, layout, quiet, saved,
                   scrollvars, sessvars, parsevars, pollvars>>

UiNext ==
    \/ LoadState
    \/ PreviousWindow
    \/ NextWindow
    \/ \E index \in 0..MaxDigit : SelectProcess(index)
    \/ ScrollUp
    \/ ScrollDown
    \/ \E rows \in Heights : Resized(rows)
    \/ Idle
    \/ Escape
    \/ InputError

\* the parts of the state a specification does not use stay as they are here
NoUi ==
    /\ procfile = <<>>
    /\ file = NoFile
    /\ pc = "off"
    /\ last = "new"
    /\ saved = None
    /\ windows = <<>>
    /\ focused_window_index = 0
    /\ repaint = TRUE
    /\ surface_rows = 0
    /\ screen_rows = 0
    /\ screen = BlankSurface(0)
    /\ flushed = None
    /\ layout = <<>>
    /\ quiet = FALSE
    /\ panic = ""

NoScroll == scroll = [pane |-> PtyTerminal_new(0), origin |-> 0, n |-> 0,
                      ups |-> 0, downs |-> 0, clamped |-> FALSE]

NoSession ==
    /\ main = "off"
    /\ request = 0
    /\ active = 0
    /\ pane = None
    /\ dropping = None
    /\ building = None
    /\ sessions = <<>>
    /\ fresh = 0

NoPoll == drain = [pc |-> "off", chan |-> <<>>, buffer |-> 0, dequeues |-> 0,
                   markers |-> 0, child |-> "none", reader |-> "none",
                   exit_status |-> FALSE, read |-> 0, got |-> <<>>, base |-> 0]

NoParse == parse = [src |-> <<>>, lines |-> <<>>, status |-> "off", out |-> <<>>]

Init == InitUi /\ NoScroll /\ NoSession /\ NoParse /\ NoPoll
Next == UiNext
Spec == Init /\ [][Next]_vars

-----------------------------------------------------------------------------
(* PersistSpec: a session that is running, its exit by Escape, and the next *)
(* run of main over the same Procfile, or over the Procfile edited since.   *)

\* the windows of a running session: in every window any member selected by
\* a digit key, with the pane set_active made for a command where
\* PtyProcess::new works, and none where it does not
RunningWindows(pf, dimension_rows) ==
    {[i \in 1..Len(pf) |->
        UiWindow_set_active(UiWindow_new(pf[i]), dimension_rows, f[i], spawned)] :
            f \in {g \in [1..Len(pf) -> 0..MaxLabels] :
                     \A i \in 1..Len(pf) : g[i] < Len(pf[i].members)},
            spawned \in BOOLEAN}

InitPersist ==
    /\ procfile \in LabelledProcfiles \ {<<>>}
    /\ file \in {NoFile, CorruptFile}
    /\ pc = "loop"
    /\ last = "idle"
    /\ saved = None
    /\ surface_rows = MaxHeight
    /\ windows \in RunningWindows(procfile, surface_rows)
    /\ focused_window_index \in 0..(Len(procfile) - 1)
    /\ repaint = FALSE
    /\ screen_rows = surface_rows
    /\ screen = BlankSurface(surface_rows)
    /\ flushed = None
    /\ layout = <<>>
    /\ quiet = FALSE
    /\ panic = ""
    /\ NoScroll
    /\ NoSession
    /\ NoParse
    /\ NoPoll

\* main is started again after a run that saved its state: parse_procfile
\* reads the same Procfile and UiState::new builds the windows anew
Relaunch ==
    /\ pc = "exited"
    /\ IsSome(saved)
    /\ pc' = "start"
    /\ last' = "new"
    /\ windows' = UiState_new_windows(procfile)
    /\ focused_window_index' = 0
    /\ repaint' = TRUE
    /\ screen' = BlankSurface(surface_rows)
    /\ flushed' = None
    /\ layout' = <<>>
    /\ quiet' = FALSE
    /\ UNCHANGED <<procfile, file, panic, surface_rows, screen_rows, saved,
                   scrollvars, sessvars, parsevars, pollvars>>

\* the title an edit gives to a renamed group
RenamedTitle == "job"

\* the Procfile after its owner edited it between two runs: the first group
\* removed, the last group renamed, or the last command of a group removed
EditedProcfiles(pf) ==
    {SubSeq(pf, 2, Len(pf)) : x \in IF Len(pf) > 0 THEN {1} ELSE {}}
        \cup {[pf EXCEPT ![Len(pf)].title = RenamedTitle] :
                  x \in IF Len(pf) > 0 /\ pf[Len(pf)].title # RenamedTitle
                        THEN {1} ELSE {}}
        \cup {[pf EXCEPT ![i].members = SubSeq(@, 1, Len(@) - 1)] :
                  i \in {j \in 1..Len(pf) : Len(pf[j].members) > 2}}

\* main is started again on the same path after the Procfile was edited:
\* the hash of the path names the same state file, parse_procfile reads the
\* new groups
RelaunchEdited ==
    /\ pc = "exited"
    /\ IsSome(saved)
    /\ procfile' \in EditedProcfiles(procfile)
    /\ pc' = "start"
    /\ last' = "new"
    /\ saved' = None
    /\ windows' = UiState_new_windows(procfile')
    /\ focused_window_index' = 0
    /\ repaint' = TRUE
    /\ screen' = BlankSurface(surface_rows)
    /\ flushed' = None
    /\ layout' = <<>>
    /\ quiet' = FALSE
    /\ UNCHANGED <<file, panic, surface_rows, screen_rows,
                   scrollvars, sessvars, parsevars, pollvars>>

PersistNext ==
    \/ Escape
    \/ Relaunch
    \/ RelaunchEdited
    \/ LoadState

PersistSpec == InitPersist /\ [][PersistNext]_vars

-----------------------------------------------------------------------------
(* ScrollSpec: scroll_up n times, then scroll_down n times, on one pane     *)
(* with nothing else in between.                                           *)

\* a pane as the compositor can hold it: an offset between 0 and the most
\* the scrollback ever allowed, over an emulator that may since have dropped
\* lines
InitScroll ==
    /\ scroll \in {[pane |-> [rows |-> r, lines |-> l, scroll_offset |-> o],
                     origin |-> o, n |-> n, ups |-> 0, downs |-> 0,
                     clamped |-> FALSE] :
                       r \in 1..2, l \in 1..(2 + MaxScrollBack),
                       o \in (0 - MaxScrollBack)..0, n \in 0..MaxScrolls}
    /\ scroll.pane.lines >= scroll.pane.rows
    /\ scroll.pane.lines <= scroll.pane.rows + MaxScrollBack
    /\ NoUi
    /\ NoSession
    /\ NoParse
    /\ NoPoll

\* 'k' while calls of scroll_up remain; clamped records a call the guard
\* of scroll_up turned down
PaneScrollUp ==
    /\ scroll.ups < scroll.n
    /\ scroll' = [scroll EXCEPT
                     !.pane = PtyTerminal_scroll_up(@),
                     !.ups = @ + 1,
                     !.clamped = @ \/ ~(scroll.pane.scroll_offset
                                          > -(scroll.pane.lines - scroll.pane.rows))]
    /\ UNCHANGED <<uivars, sessvars, parsevars, pollvars>>

\* 'j' once the scroll_up calls are made
PaneScrollDown ==
    /\ scroll.ups = scroll.n
    /\ scroll.downs < scroll.n
    /\ scroll' = [scroll EXCEPT !.pane = PtyTerminal_scroll_down(@),
                                !.downs = @ + 1]
    /\ UNCHANGED <<uivars, sessvars, parsevars, pollvars>>

ScrollNext ==
    \/ PaneScrollUp
    \/ PaneScrollDown

ScrollSpec == InitScroll /\ [][ScrollNext]_vars

-----------------------------------------------------------------------------
(* ParseSpec: parse_procfile.  A line is a sequence of characters.         *)

DefaultLabel == <<"d", "e", "f", "a", "u", "l", "t">>

\* l.starts_with("#") and l.contains(":")
starts_with_hash(l) == Len(l) > 0 /\ l[1] = "#"
contains_colon(l) == \E i \in 1..Len(l) : l[i] = ":"

\* the filter of parse_procfile
kept(l) == ~starts_with_hash(l) \/ contains_colon(l)

\* splitn as it would be if it cut at the last colon
splitn2_last(l) ==
    LET at == {i \in 1..Len(l) : l[i] = ":"}
    IN  IF at = {} THEN <<l>>
        ELSE LET i == CHOOSE i \in at : \A j \in at : j <= i
             IN  <<SubSeq(l, 1, i - 1), SubSeq(l, i + 1, Len(l))>>

\* l.splitn(2, ":"): the line cut at its first colon, or the whole line
splitn2(l) ==
    LET at == {i \in 1..Len(l) : l[i] = ":"}
    IN  IF at = {} THEN <<l>>
        ELSE LET i == CHOOSE i \in at : \A j \in at : i <= j
             IN  <<SubSeq(l, 1, i - 1), SubSeq(l, i + 1, Len(l))>>

\* the captures of ^(.+)\[(.+)\]$ : the first group is greedy, so the cut is
\* at the last "[" that leaves both groups non-empty
captures(title) ==
    LET n == Len(title)
        at == {i \in 2..(n - 2) : title[i] = "["}
    IN  IF n >= 4 /\ title[n] = "]" /\ at # {}
        THEN LET i == CHOOSE i \in at : \A j \in at : j <= i
             IN  Some(<<SubSeq(title, 1, i - 1), SubSeq(title, i + 1, n - 1)>>)
        ELSE None

\* str::trim
RECURSIVE trim_start(_)
trim_start(c) == IF Len(c) > 0 /\ c[1] = " " THEN trim_start(Tail(c)) ELSE c

RECURSIVE trim_end(_)
trim_end(c) ==
    IF Len(c) > 0 /\ c[Len(c)] = " " THEN trim_end(SubSeq(c, 1, Len(c) - 1)) ELSE c

trim(c) == trim_end(trim_start(c))

\* the map closure: (title, label, command) of one line; the second
\* it.next().unwrap() panics on a line without a colon
parse_line(l) ==
    LET parts == splitn2(l)
    IN  IF Len(parts) < 2
        THEN [panic |-> TRUE, a |-> <<>>, b |-> <<>>, c |-> <<>>]
        ELSE LET cap == captures(parts[1])
             IN  [panic |-> FALSE,
                  a |-> IF IsSome(cap) THEN Unwrap(cap)[1] ELSE parts[1],
                  b |-> IF IsSome(cap) THEN Unwrap(cap)[2] ELSE DefaultLabel,
                  c |-> trim(parts[2])]

\* the fold: the titles in the order they were first seen, and per title
\* the (label, command) pairs in the order of their lines
RECURSIVE parse_fold(_, _, _, _)
parse_fold(ls, i, ordered, map) ==
    IF i > Len(ls) THEN [ordered |-> ordered, map |-> map]
    ELSE LET x == parse_line(ls[i])
             seen == \E k \in 1..Len(ordered) : ordered[k] = x.a
         IN  parse_fold(ls, i + 1,
                 IF seen THEN ordered ELSE Append(ordered, x.a),
                 [t \in (DOMAIN map) \cup {x.a} |->
                     IF t = x.a
                     THEN Append(IF seen THEN map[t] ELSE <<>>, <<x.b, x.c>>)
                     ELSE map[t]])

\* parse_procfile on the lines of the file: a panic, or the Procfile
parse_procfile(ls) ==
    LET ks == SelectSeq(ls, kept)
    IN  IF \E i \in 1..Len(ks) : parse_line(ks[i]).panic
        THEN [status |-> "panicked", out |-> <<>>]
        ELSE LET r == parse_fold(ks, 1, <<>>, [t \in {} |-> <<>>])
             IN  [status |-> "ok",
                  out |-> [i \in 1..Len(r.ordered) |->
                      [title |-> r.ordered[i],
                       members |-> <<NullProcess>> \o
                           [j \in 1..Len(r.map[r.ordered[i]]) |->
                               [null |-> FALSE,
                                label |-> r.map[r.ordered[i]][j][1],
                                argv |-> r.map[r.ordered[i]][j][2]]]]]]

\* what a Procfile is written from: a configuration line with a title, a
\* label or none and a command, a comment, or an empty line
SourceLines ==
    {[kind |-> "config", title |-> t, label |-> l, cmd |-> c] :
        t \in {<<"w">>, <<"d", "b">>},
        l \in {None, Some(<<"x">>)},
        c \in {<<"c">>, <<" ", "c", ":", "c", " ">>}}
    \cup {[kind |-> "comment", title |-> <<>>, label |-> None, cmd |-> <<"c">>],
          [kind |-> "empty", title |-> <<>>, label |-> None, cmd |-> <<>>]}

\* the line as it stands in the file
Written(x) ==
    IF x.kind = "config"
    THEN x.title
         \o (IF IsSome(x.label) THEN <<"[">> \o Unwrap(x.label) \o <<"]">> ELSE <<>>)
         \o <<":">> \o x.cmd
    ELSE IF x.kind = "comment" THEN <<"#">> \o x.cmd
    ELSE <<>>

InitParse ==
    /\ \E n \in 0..MaxLines :
         \E src \in [1..n -> SourceLines] :
            parse = [src |-> src, lines |-> [i \in 1..n |-> Written(src[i])],
                     status |-> "ready", out |-> <<>>]
    /\ NoUi
    /\ NoScroll
    /\ NoSession
    /\ NoPoll

\* main: let procfile = parse_procfile(procfile_path.as_path())?
ParseProcfile ==
    /\ parse.status = "ready"
    /\ parse' = [parse EXCEPT !.status = parse_procfile(parse.lines).status,
                              !.out = parse_procfile(parse.lines).out]
    /\ UNCHANGED <<uivars, scrollvars, sessvars, pollvars>>

ParseNext == ParseProcfile

ParseSpec == InitParse /\ [][ParseNext]_vars

-----------------------------------------------------------------------------
(* SessionSpec: the PtyProcess of one window whose group has one command.  *)
(* sessions[id] is what exists around the id-th pty pair:                  *)
(*   child        none, running, killed (signalled, not yet dead), exited  *)
(*                (dead, not yet waited for), reaped                       *)
(*   reader       none, running, finished: the reader thread               *)
(*   pair         the PtyPair (master and slave) is held by this process   *)
(*   writer       the master's writer was taken and dropped                *)
(*   receiver     the Receiver of the channel exists                       *)
(*   out, chan    chunks the child wrote and the reader has not read yet,  *)
(*                messages sent and not yet received                       *)
(*   exit_status  PtyProcess.exit_status is Some                           *)
(*   polled       history: a poll call was made while the child ran        *)
(*   seen         history: the poll calls whose try_wait returned the exit *)
(*   markers      history: the poll calls that appended the marker         *)
(*   marker_at    history: the value of seen at the first such call        *)
(*   early        history: the marker was appended while the child ran     *)
(*   dead_at_drop history: the child had exited when drop began            *)
(*   signalled    history: child.kill() was called                         *)
(*   teardown     history: the steps drop has taken                        *)
(*   left         history: the state of the reader when drop returned      *)

NewSession ==
    [child |-> "running", reader |-> "none", pair |-> TRUE, writer |-> FALSE,
     receiver |-> FALSE, out |-> 0, chan |-> 0, exit_status |-> FALSE,
     polled |-> FALSE, seen |-> 0, markers |-> 0, marker_at |-> 0, early |-> FALSE,
     dead_at_drop |-> FALSE, signalled |-> FALSE,
     teardown |-> <<>>, left |-> "none"]

Alive(c) == c.child \in {"running", "killed"}

\* Child::try_wait: the outcomes for a child in this state
try_wait(c) ==
    IF c.child \in {"exited", "reaped"} THEN {"some", "err"} ELSE {"none", "err"}

\* poll as it would be without the exit_status.is_none() test
PtyProcess_poll_marker_unguarded(r, exit_status) == r = "some"

\* PtyProcess::poll: whether the marker is appended to the buffer
PtyProcess_poll_marker(r, exit_status) == r = "some" /\ ~exit_status

InitSession ==
    /\ main = "idle"
    /\ request = 0
    /\ active = 0
    /\ pane = None
    /\ dropping = None
    /\ building = None
    /\ sessions = <<>>
    /\ fresh = 0
    /\ NoUi
    /\ NoScroll
    /\ NoParse
    /\ NoPoll

\* the members of the window's group: Null and one command
SessionMembers == Members(<<"default">>)

\* set_active as it would be without the test of members.get(index)
UiWindow_member_exists_any(members, index) == TRUE

\* set_active: if let Some(process) = self.process_group.members.get(index)
UiWindow_member_exists(members, index) == IsSome(Get(members, index))

\* set_active as it would be if the old pane were forgotten and not dropped
set_active_forgetting_pane(p) == "assign"

\* set_active, self.pty_terminal = None: where main goes next, into the drop
\* of the old PtyProcess when there is a pane
set_active_clearing_pane(p) == IF IsSome(p) THEN "drop_take_writer" ELSE "assign"

\* set_active(index): members.get(index), then self.pty_terminal = None,
\* which drops the PtyTerminal and with it the PtyProcess
SetActive(index) ==
    /\ main = "idle"
    /\ index = 1 => fresh < MaxSessions
    /\ request' = index
    /\ UNCHANGED <<uivars, scrollvars, parsevars, pollvars, active, building, sessions, fresh>>
    /\ IF ~UiWindow_member_exists(SessionMembers, index)
       THEN UNCHANGED <<main, pane, dropping>>
       ELSE /\ pane' = None
            /\ dropping' = pane
            /\ main' = set_active_clearing_pane(pane)

\* drop: let writer = self.pty.master.take_writer().unwrap(); drop(writer)
DropTakeWriter ==
    /\ main = "drop_take_writer"
    /\ sessions' = [sessions EXCEPT ![Unwrap(dropping)] =
                       [@ EXCEPT !.writer = TRUE,
                                 !.dead_at_drop = ~Alive(sessions[Unwrap(dropping)]),
                                 !.teardown = Append(@, "close_writer")]]
    /\ main' = "drop_kill"
    /\ UNCHANGED <<uivars, scrollvars, parsevars, pollvars, request, active, pane, dropping, building, fresh>>

\* kill as it would be without the try_wait before child.kill()
PtyProcess_kill_always(c) == TRUE

\* PtyProcess::kill: whether child.kill() is called, which it is when
\* try_wait returns Ok(None)
PtyProcess_kill_signals(c) == Alive(c)

\* drop: self.kill().unwrap(); kill signals the child unless try_wait finds
\* it dead (and then has reaped it)
DropKill ==
    /\ main = "drop_kill"
    /\ sessions' = [sessions EXCEPT ![Unwrap(dropping)] =
                       [@ EXCEPT !.child =
                                     IF PtyProcess_kill_signals(sessions[Unwrap(dropping)])
                                     THEN "killed"
                                     ELSE "reaped",
                                 !.signalled =
                                     PtyProcess_kill_signals(sessions[Unwrap(dropping)]),
                                 !.teardown = Append(@, "kill")]]
    /\ main' = "drop_wait"
    /\ UNCHANGED <<uivars, scrollvars, parsevars, pollvars, request, active, pane, dropping, building, fresh>>

\* drop: self.child.wait().unwrap() returns once the child is dead
DropWait ==
    /\ main = "drop_wait"
    /\ ~Alive(sessions[Unwrap(dropping)])
    /\ sessions' = [sessions EXCEPT ![Unwrap(dropping)] =
                       [@ EXCEPT !.child = "reaped",
                                 !.teardown = Append(@, "wait")]]
    /\ main' = "drop_finish"
    /\ UNCHANGED <<uivars, scrollvars, parsevars, pollvars, request, active, pane, dropping, building, fresh>>

\* drop: drop(&self.pty.master) and drop(&self.child_handle) drop references
\* and do nothing; drop returns and the fields go: the PtyPair is closed, the
\* Receiver is gone with the messages it held, the JoinHandle is dropped
\* without a join
DropFinish ==
    /\ main = "drop_finish"
    /\ sessions' = [sessions EXCEPT ![Unwrap(dropping)] =
                       [@ EXCEPT !.pair = FALSE,
                                 !.receiver = FALSE,
                                 !.chan = 0,
                                 !.left = sessions[Unwrap(dropping)].reader,
                                 !.teardown = Append(@, "done")]]
    /\ dropping' = None
    /\ main' = "assign"
    /\ UNCHANGED <<uivars, scrollvars, parsevars, pollvars, request, active, pane, building, fresh>>

\* set_active: self.active_process_index = index, then the match on process
Assign ==
    /\ main = "assign"
    /\ active' = request
    /\ main' = IF request = 1 THEN "new_spawn" ELSE "idle"
    /\ UNCHANGED <<uivars, scrollvars, parsevars, pollvars, request, pane, dropping, building, sessions, fresh>>

\* PtyProcess::new up to let child = maybe_child?: openpty, current_dir and
\* spawn_command; on Err nothing is left and the window has no pane
NewSpawn ==
    /\ main = "new_spawn"
    /\ UNCHANGED <<uivars, scrollvars, parsevars, pollvars, request, active, pane, dropping>>
    /\ \E ok \in BOOLEAN :
         IF ok
         THEN /\ fresh' = fresh + 1
              /\ sessions' = Append(sessions, NewSession)
              /\ building' = Some(fresh + 1)
              /\ main' = "new_reader"
         ELSE /\ main' = "idle"
              /\ UNCHANGED <<building, sessions, fresh>>

\* PtyProcess::new from mpsc::channel() on: try_clone_reader()? and the
\* thread's spawn(..)?.  On Err the function returns with the child spawned:
\* pty, child and receiver are dropped, and dropping a Child neither kills
\* nor waits for it; what the child wrote so far goes with the master.
NewReader ==
    /\ main = "new_reader"
    /\ building' = None
    /\ main' = "idle"
    /\ UNCHANGED <<uivars, scrollvars, parsevars, pollvars, request, active, dropping, fresh>>
    /\ \E ok \in BOOLEAN :
         IF ok
         THEN /\ sessions' = [sessions EXCEPT ![Unwrap(building)] =
                                [@ EXCEPT !.reader = "running", !.receiver = TRUE]]
              /\ pane' = building
         ELSE /\ sessions' = [sessions EXCEPT ![Unwrap(building)] =
                                [@ EXCEPT !.pair = FALSE, !.out = 0]]
              /\ pane' = None

\* PtyProcess::poll, the try_recv loop: it takes what the channel holds (a
\* chunk is at most 1024 bytes, so the break at 16384 bytes needs more
\* messages than MaxChunks)
PollRecv ==
    /\ main = "idle"
    /\ IsSome(pane)
    /\ sessions[Unwrap(pane)].seen < MaxPolls
    /\ sessions' = [sessions EXCEPT ![Unwrap(pane)] = [@ EXCEPT !.chan = 0]]
    /\ main' = "poll_try_wait"
    /\ UNCHANGED <<uivars, scrollvars, parsevars, pollvars, request, active, pane, dropping, building, fresh>>

\* PtyProcess::poll, match self.child.try_wait()
PollTryWait ==
    /\ main = "poll_try_wait"
    /\ main' = "idle"
    /\ UNCHANGED <<uivars, scrollvars, parsevars, pollvars, request, active, pane, dropping, building, fresh>>
    /\ \E r \in try_wait(sessions[Unwrap(pane)]) :
         LET p == sessions[Unwrap(pane)]
             marker == PtyProcess_poll_marker(r, p.exit_status)
             seen == IF r = "some" THEN p.seen + 1 ELSE p.seen
         IN  sessions' = [sessions EXCEPT ![Unwrap(pane)] =
                [@ EXCEPT !.child = IF r = "some" THEN "reaped" ELSE @,
                          !.exit_status = @ \/ marker,
                          !.polled = @ \/ Alive(p),
                          !.seen = seen,
                          !.markers = IF marker THEN @ + 1 ELSE @,
                          !.marker_at = IF marker /\ p.markers = 0 THEN seen ELSE @,
                          !.early = @ \/ (marker /\ Alive(p))]]

\* the child writes to its terminal while some master descriptor is open
ChildOutput(id) ==
    /\ Alive(sessions[id])
    /\ sessions[id].pair \/ sessions[id].reader = "running"
    /\ sessions[id].out < MaxChunks
    /\ sessions' = [sessions EXCEPT ![id] = [@ EXCEPT !.out = @ + 1]]
    /\ UNCHANGED <<uivars, scrollvars, parsevars, pollvars, main, request, active, pane, dropping,
                   building, fresh>>

\* the child exits, by itself or by the signal
ChildExit(id) ==
    /\ Alive(sessions[id])
    /\ sessions' = [sessions EXCEPT ![id] = [@ EXCEPT !.child = "exited"]]
    /\ UNCHANGED <<uivars, scrollvars, parsevars, pollvars, main, request, active, pane, dropping,
                   building, fresh>>

\* the reader thread: read returned n > 0 and tx.send(..).unwrap(); the
\* unwrap ends the thread when the Receiver is gone (and with the thread
\* goes the last descriptor of the master and what the pty still held)
ReaderSend(id) ==
    /\ sessions[id].reader = "running"
    /\ sessions[id].out > 0
    /\ sessions[id].receiver => sessions[id].chan < MaxChunks
    /\ sessions' = [sessions EXCEPT ![id] =
                       [@ EXCEPT !.out = IF sessions[id].receiver THEN @ - 1 ELSE 0,
                                 !.chan = IF sessions[id].receiver THEN @ + 1 ELSE @,
                                 !.reader = IF sessions[id].receiver
                                            THEN @ ELSE "finished"]]
    /\ UNCHANGED <<uivars, scrollvars, parsevars, pollvars, main, request, active, pane, dropping,
                   building, fresh>>

\* the reader thread: read returned 0 or Err, which it does once no slave
\* descriptor is open: the PtyPair is dropped and the child is dead
ReaderEnd(id) ==
    /\ sessions[id].reader = "running"
    /\ sessions[id].out = 0
    /\ ~sessions[id].pair
    /\ ~Alive(sessions[id])
    /\ sessions' = [sessions EXCEPT ![id] = [@ EXCEPT !.reader = "finished"]]
    /\ UNCHANGED <<uivars, scrollvars, parsevars, pollvars, main, request, active, pane, dropping,
                   building, fresh>>

SessionNext ==
    \/ \E index \in 0..Len(SessionMembers) : SetActive(index)
    \/ DropTakeWriter
    \/ DropKill
    \/ DropWait
    \/ DropFinish
    \/ Assign
    \/ NewSpawn
    \/ NewReader
    \/ PollRecv
    \/ PollTryWait
    \/ \E id \in 1..fresh : ChildOutput(id)
    \/ \E id \in 1..fresh : ChildExit(id)
    \/ \E id \in 1..fresh : ReaderSend(id)
    \/ \E id \in 1..fresh : ReaderEnd(id)

SessionSpec == InitSession /\ [][SessionNext]_vars

-----------------------------------------------------------------------------
(* PollSpec: the poll calls on one PtyProcess, dequeue by dequeue, with    *)
(* the reader thread sending while poll runs.  drain holds                 *)
(*   pc           idle (main is outside poll), recv (in the try_recv       *)
(*                loop), try_wait (after the loop)                         *)
(*   chan         the messages waiting in the channel: seq, the number of  *)
(*                the read that produced the message, counted modulo       *)
(*                SeqMod, and n, its size                                  *)
(*   read         the number of the reader thread's next read              *)
(*   got          history: the seq of the messages this poll call took     *)
(*   base         history: the seq after the last message that the poll    *)
(*                calls before this one returned                           *)
(*   buffer       the length of poll's buffer                              *)
(*   dequeues     history: the messages this poll call received            *)
(*   markers      history: the markers this poll call appended             *)
(*   child        running, exited, reaped                                  *)
(*   reader       running, finished: the reader thread                     *)
(*   exit_status  PtyProcess.exit_status is Some                           *)

\* reads are numbered modulo SeqMod, which is more than the messages one
\* poll call can take and the channel can hold together
SeqMod == PollCap + MaxQueued + 2

\* try_recv as it would be if the channel handed out its newest message
channel_recv_newest(chan) ==
    [msg |-> chan[Len(chan)], rest |-> SubSeq(chan, 1, Len(chan) - 1)]

\* self.receiver.try_recv() on a channel that holds a message: the message
\* received and what stays in the channel
channel_recv(chan) == [msg |-> Head(chan), rest |-> Tail(chan)]

\* poll as it would be if it stopped at twice the size
poll_full_at_twice(len) == len > 2 * PollCap

\* poll: if buffer.len() > 16384 { break; }
poll_full(len) == len > PollCap

InitPoll ==
    /\ drain = [pc |-> "idle", chan |-> <<>>, buffer |-> 0, dequeues |-> 0,
                markers |-> 0, child |-> "running", reader |-> "running",
                exit_status |-> FALSE, read |-> 0, got |-> <<>>, base |-> 0]
    /\ NoUi
    /\ NoScroll
    /\ NoSession
    /\ NoParse

\* poll: let mut buffer = Vec::<u8>::new()
DrainStart ==
    /\ drain.pc = "idle"
    /\ drain' = [drain EXCEPT !.pc = "recv", !.buffer = 0, !.dequeues = 0,
                              !.markers = 0, !.got = <<>>,
                              !.base = (@ + Len(drain.got)) % SeqMod]
    /\ UNCHANGED <<uivars, scrollvars, sessvars, parsevars>>

\* poll: one turn of the loop around self.receiver.try_recv()
DrainTryRecv ==
    /\ drain.pc = "recv"
    /\ drain' = IF drain.chan # <<>>
                THEN LET r == channel_recv(drain.chan)
                     IN  [drain EXCEPT
                             !.chan = r.rest,
                             !.buffer = @ + r.msg.n,
                             !.got = Append(@, r.msg.seq),
                             !.dequeues = @ + 1,
                             !.pc = IF poll_full(drain.buffer + r.msg.n)
                                    THEN "try_wait" ELSE "recv"]
                ELSE [drain EXCEPT !.pc = "try_wait"]
    /\ UNCHANGED <<uivars, scrollvars, sessvars, parsevars>>

\* poll: match self.child.try_wait(), and the return of the buffer
DrainTryWait ==
    /\ drain.pc = "try_wait"
    /\ \E r \in try_wait(drain) :
         drain' = [drain EXCEPT
                      !.pc = "idle",
                      !.child = IF r = "some" THEN "reaped" ELSE @,
                      !.markers = IF PtyProcess_poll_marker(r, drain.exit_status)
                                  THEN @ + 1 ELSE @,
                      !.exit_status =
                          @ \/ PtyProcess_poll_marker(r, drain.exit_status)]
    /\ UNCHANGED <<uivars, scrollvars, sessvars, parsevars>>

\* the reader thread: read returned n bytes, 0 < n <= 1024, and they are
\* sent; the channel of mpsc::channel() takes any number of messages, of
\* which the model lets MaxQueued wait
DrainReaderSend(n) ==
    /\ drain.reader = "running"
    /\ Len(drain.chan) < MaxQueued
    /\ drain' = [drain EXCEPT !.chan = Append(@, [seq |-> drain.read, n |-> n]),
                              !.read = (@ + 1) % SeqMod]
    /\ UNCHANGED <<uivars, scrollvars, sessvars, parsevars>>

\* the child exits
DrainChildExit ==
    /\ drain.child = "running"
    /\ drain' = [drain EXCEPT !.child = "exited"]
    /\ UNCHANGED <<uivars, scrollvars, sessvars, parsevars>>

\* the reader thread: read returned 0 after the child went, and the thread
\* ends
DrainReaderEnd ==
    /\ drain.reader = "running"
    /\ drain.child # "running"
    /\ drain' = [drain EXCEPT !.reader = "finished"]
    /\ UNCHANGED <<uivars, scrollvars, sessvars, parsevars>>

PollNext ==
    \/ DrainStart
    \/ DrainTryRecv
    \/ DrainTryWait
    \/ \E n \in 1..ChunkBytes : DrainReaderSend(n)
    \/ DrainChildExit
    \/ DrainReaderEnd

\* main runs on while it is inside poll
PollSpec ==
    /\ InitPoll
    /\ [][PollNext]_vars
    /\ WF_vars(DrainTryRecv)
    /\ WF_vars(DrainTryWait)

-----------------------------------------------------------------------------
(* Claims about the Process Session *)

\* C1: for every PtyProcess, the exit marker is appended in exactly one poll
\* call, the first whose try_wait observes the exit; no poll made while the
\* child runs and no later poll contains it.
C1_ExitMarkerOnce ==
    \A id \in 1..fresh :
        LET p == sessions[id]
        IN  /\ p.markers = IF p.seen > 0 THEN 1 ELSE 0
            /\ p.marker_at = p.markers
            /\ ~p.early

\* a poll while the child runs, the poll that observes the exit, and a poll
\* after it
C1_Witness ==
    \E id \in 1..fresh :
        /\ sessions[id].polled
        /\ sessions[id].seen = 2
        /\ sessions[id].markers = 1

\* C2: after any sequence of set_active calls the window has at most one
\* live session, two children of the window are never alive at the same
\* time, and a set_active of the command index that has returned leaves
\* exactly one session.
C2_OneLiveSession ==
    /\ Cardinality({id \in 1..fresh : Alive(sessions[id])}) <= 1
    /\ (main = "idle" /\ active = 1) => IsSome(pane)

\* C8: the teardown of a PtyProcess closes the writer, kills the child,
\* waits for it and joins the reader thread, in this order and once each,
\* and it is not complete before the reader thread has terminated.
C8_TeardownJoinsReader ==
    \A id \in 1..fresh :
        LET t == sessions[id].teardown
            steps == <<"close_writer", "kill", "wait", "join", "done">>
        IN  /\ Len(t) <= Len(steps)
            /\ \A k \in 1..Len(t) : t[k] = steps[k]
            /\ (t # <<>> /\ t[Len(t)] = "done") => sessions[id].left = "finished"

C17_InvalidIndexIsNoOp ==
    [][\A index \in 0..Len(SessionMembers) :
          (index >= Len(SessionMembers) /\ SetActive(index))
              => /\ active' = active
                 /\ pane' = pane
                 /\ sessions' = sessions
                 /\ main' = "idle"
                 /\ dropping' = dropping]_vars

\* set_active was called with the index after the last member while the
\* command ran in a pane, which still runs
C17_Witness ==
    /\ main = "idle"
    /\ request = Len(SessionMembers)
    /\ active = 1
    /\ IsSome(pane)
    /\ sessions[Unwrap(pane)].child = "running"
    /\ sessions[Unwrap(pane)].teardown = <<>>

\* C19: when set_active selects the command and openpty or spawn_command
\* fails, the failure is absorbed: the window has no pane, this call left
\* no child, the active index is the selected index, every PtyProcess the
\* window held was torn down to the end with its child reaped, and main
\* goes on with its loop.
C19_SpawnFailureAbsorbed ==
    [][(NewSpawn /\ fresh' = fresh) =>
          /\ main' = "idle"
          /\ pane' = None
          /\ active' = 1
          /\ request' = 1
          /\ sessions' = sessions
          /\ \A id \in 1..fresh :
                sessions'[id].reader # "none"
                    => /\ sessions'[id].teardown =
                              <<"close_writer", "kill", "wait", "done">>
                       /\ sessions'[id].child = "reaped"]_vars

\* the command was selected again while its child ran, the old PtyProcess
\* was torn down, and the new one could not be spawned
C19_Witness ==
    /\ main = "idle"
    /\ request = 1
    /\ active = 1
    /\ pane = None
    /\ fresh = 1
    /\ sessions[1].signalled
    /\ sessions[1].child = "reaped"
    /\ sessions[1].teardown = <<"close_writer", "kill", "wait", "done">>

\* what one poll call has taken so far
DrainBounded ==
    /\ drain.buffer <= PollCap + ChunkBytes
    /\ drain.pc = "recv" => drain.buffer <= PollCap
    /\ drain.dequeues <= PollCap + 1
    /\ drain.markers <= 1

\* C20: one poll call stops draining as soon as its buffer holds more than
\* the cap, so with messages of at most ChunkBytes bytes it returns at most
\* PollCap + ChunkBytes bytes of child output and at most one marker, and it
\* leaves the loop after finitely many dequeues (at most PollCap + 1) even
\* when the reader thread keeps sending.
C20_PollDrainBounded ==
    /\ []DrainBounded
    /\ (drain.pc = "recv") ~> (drain.pc = "idle")

\* a poll call returned the most it can, with the marker, and left a
\* message in the channel
C20_Witness ==
    /\ drain.pc = "idle"
    /\ drain.buffer = PollCap + ChunkBytes
    /\ drain.markers = 1
    /\ drain.chan # <<>>

\* the seq of what the poll call in progress took, then of what waits
Delivery == drain.got \o [i \in 1..Len(drain.chan) |-> drain.chan[i].seq]

\* C21: under any interleaving of the reader thread and the poll calls, what
\* the successive poll calls return is a prefix of what the reader read, in
\* the order of the reads, with no message lost, duplicated or reordered:
\* the messages a poll call took and the messages that wait continue, one
\* read after the other, from the last message the earlier calls returned
\* up to the reader's next read, so what a call leaves at the cap is what
\* the next calls return first.
C21_PollReturnsReadsInOrder ==
    /\ \A i \in 1..Len(Delivery) : Delivery[i] = (drain.base + i - 1) % SeqMod
    /\ (drain.base + Len(Delivery)) % SeqMod = drain.read
    /\ Len(drain.got) = drain.dequeues

\* after earlier poll calls returned messages, a call stopped at the cap
\* and left a message in the channel
C21_Witness ==
    /\ drain.pc = "idle"
    /\ drain.base # 0
    /\ drain.buffer > PollCap
    /\ Len(drain.got) > 1
    /\ drain.chan # <<>>

\* C22: the channel between the reader thread and the poll calls is
\* bounded: the messages that wait never exceed a fixed capacity, however
\* fast the child writes.  (The channel of the code has no capacity; the
\* capacity here is the largest the model can refute, one message less than
\* it lets wait.)
C22_ChannelBounded == Len(drain.chan) < MaxQueued

\* C23: once a poll call has returned the marker, no later poll call
\* returns bytes of the child.
C23_NothingAfterMarker ==
    (drain.exit_status /\ drain.markers = 0) => drain.dequeues = 0

-----------------------------------------------------------------------------
(* Claims about the compositor *)

Panes == {i \in 1..Len(windows) : IsSome(windows[i].pty_terminal)}

\* C3: in every reachable state, every window's active_process_index is a
\* valid index into its group's members, and a window whose active index is
\* 0 (the Null member) has no pane.
C3_ActiveIndexValid ==
    \A i \in 1..Len(windows) :
        /\ windows[i].active_process_index >= 0
        /\ windows[i].active_process_index < Len(windows[i].process_group.members)
        /\ windows[i].active_process_index = 0 => windows[i].pty_terminal = None

\* the first window was restored to its command by load_state and has since
\* been set back to Null, while another window runs a pane
C3_Witness ==
    /\ pc = "loop"
    /\ file.valid
    /\ Len(windows) = 2
    /\ windows[1].active_process_index = 0
    /\ windows[2].active_process_index = 1
    /\ IsSome(windows[2].pty_terminal)

FocusInRange ==
    /\ focused_window_index >= 0
    /\ focused_window_index <= saturating_sub(Len(windows), 1)

\* C4: focused_window_index is always within [0, len(windows) - 1] (0 when
\* there are no windows); next_window at the last window and previous_window
\* at the first leave it unchanged, otherwise they move it by exactly one;
\* load_state only sets it to the index of an existing window.
C4_FocusClamped ==
    /\ []FocusInRange
    /\ [][NextWindow =>
            focused_window_index' =
                IF focused_window_index + 1 >= Len(windows)
                THEN focused_window_index
                ELSE focused_window_index + 1]_vars
    /\ [][PreviousWindow =>
            focused_window_index' =
                IF focused_window_index = 0 THEN 0
                ELSE focused_window_index - 1]_vars
    /\ [][LoadState =>
            \/ focused_window_index' = focused_window_index
            \/ focused_window_index' < Len(windows)]_vars

\* the focus was restored to the last window by load_state and has been
\* moved back to the first by previous_window
C4_Witness ==
    /\ pc = "loop"
    /\ file.valid
    /\ Len(windows) = 2
    /\ IsSome(flushed)
    /\ focused_window_index = 0

\* C6: in every reachable state every pane's scroll_offset lies between
\* -(scrollback_rows - viewport_rows) and 0.
C6_ScrollWithinScrollback ==
    \A i \in Panes :
        LET t == Unwrap(windows[i].pty_terminal)
        IN  /\ t.scroll_offset <= 0
            /\ t.scroll_offset >= -(t.lines - t.rows)

\* C9: in every rendered frame of n windows on a screen of height H the
\* unfocused windows get height 3, the focused one H - 3 * (n - 1), the
\* windows occupy consecutive row ranges in order, the heights sum to H and
\* are at least 1, and no subtraction goes below zero.
C9_LayoutFillsScreen ==
    /\ panic # "attempt to subtract with overflow"
    /\ pc # "wrapped"
    /\ (pc = "loop" /\ layout # <<>>) =>
          LET n == Len(layout)
          IN  /\ \A i \in 1..n :
                    /\ layout[i].h = IF i - 1 = focused_window_index
                                     THEN screen_rows - 3 * (n - 1)
                                     ELSE 3
                    /\ layout[i].h >= 1
                    /\ layout[i].y = IF i = 1 THEN 0
                                     ELSE layout[i - 1].y + layout[i - 1].h
              /\ layout[n].y + layout[n].h = screen_rows

\* C10: a frame rendered with no input, no child output, no child exit and
\* no resize since the frame before it sends nothing to the terminal: no
\* ClearScreen and an empty diff.
C10_QuietFrameEmitsNothing ==
    quiet => Unwrap(flushed) = [clear |-> 0, cells |-> {}]

\* a quiet frame of two windows, one of them showing a scrolled pane
C10_Witness ==
    /\ quiet
    /\ Len(windows) = 2
    /\ \E i \in Panes : Unwrap(windows[i].pty_terminal).scroll_offset < 0

\* a turn of the loop that rendered and flushed a frame
FrameStep == pc = "loop" /\ pc' = "loop"

\* C12 as stated: a frame emits a ClearScreen if and only if it is the first
\* frame after construction or the first after a detected resize, and then
\* exactly one; frames after focus changes, member selection or scroll
\* commands emit none.
C12_ClearOnlyAtStartAndResize ==
    [][FrameStep =>
          Unwrap(flushed').clear =
              IF flushed = None \/ last' = "resized" THEN 1 ELSE 0]_vars

\* C12 amended: a frame emits one ClearScreen for the repaint flag, which
\* construction and every call of previous_window, next_window,
\* select_process, scroll_up and scroll_down set, and one more for a
\* detected resize: a frame after a resize emits one, or two when it is the
\* first frame; a frame after one of these keys emits exactly one; a frame
\* after no input emits one when it is the first frame and none otherwise.
C12_ClearFollowsRepaintAndResize ==
    [][FrameStep =>
          Unwrap(flushed').clear =
              (IF flushed = None \/ last' = "key" THEN 1 ELSE 0)
                  + (IF last' = "resized" THEN 1 ELSE 0)]_vars

\* a frame that followed a change of focus and cleared the screen
C12_Witness ==
    /\ pc = "loop"
    /\ ~file.exists
    /\ focused_window_index = 1
    /\ IsSome(flushed)
    /\ Unwrap(flushed).clear = 1
    /\ last = "key"

\* C13: in every reachable state every window that is not the focused one
\* has scroll offset 0 in its pane, if it has one: the scroll commands change
\* the focused window's pane only, previous_window and next_window reset the
\* scroll of the window they leave, and new panes start at offset 0.
C13_UnfocusedNotScrolled ==
    \A i \in Panes :
        i - 1 # focused_window_index
            => Unwrap(windows[i].pty_terminal).scroll_offset = 0

\* the focus has moved from the first window, whose pane holds more lines
\* than it shows, to the second, whose pane is scrolled back
C13_Witness ==
    /\ pc = "loop"
    /\ ~file.exists
    /\ Len(windows) = 2
    /\ focused_window_index = 1
    /\ Panes = {1, 2}
    /\ Unwrap(windows[1].pty_terminal).lines > Unwrap(windows[1].pty_terminal).rows
    /\ Unwrap(windows[2].pty_terminal).scroll_offset < 0

\* C14: when the state file exists but does not hold a saved-session
\* record, load_state does not fail and startup is not aborted: the
\* compositor is left in the default session (focus on window 0, every
\* window on its Null member with no pane) and the event loop starts.
C14_CorruptFileStartsDefault ==
    (file.exists /\ ~file.valid /\ last = "load")
        => /\ pc = "loop"
           /\ focused_window_index = 0
           /\ \A i \in 1..Len(windows) :
                 /\ windows[i].active_process_index = 0
                 /\ windows[i].pty_terminal = None

\* what a handler left of every window but the focused one, of the focus,
\* and of the active indices
OthersKept(u) ==
    /\ u.focused_window_index = focused_window_index
    /\ Len(u.windows) = Len(windows)
    /\ \A i \in 1..Len(windows) :
          i - 1 # focused_window_index => u.windows[i] = windows[i]

ActiveKept(u) ==
    \A i \in 1..Len(windows) :
        u.windows[i].active_process_index = windows[i].active_process_index

\* C18: select_process changes the focused window only: the active index,
\* the pane with its PtyProcess and scroll offset of every other window, and
\* the focused index, are as before; scroll_up and scroll_down leave every
\* window that is not focused, the focused index and every active index as
\* before.
C18_HandlersTouchFocusedOnly ==
    pc = "loop" =>
        /\ \A index \in 0..MaxDigit, spawned \in BOOLEAN :
              OthersKept(UiState_select_process(Ui, surface_rows, index, spawned))
        /\ OthersKept(UiState_scroll_up(Ui)) /\ ActiveKept(UiState_scroll_up(Ui))
        /\ OthersKept(UiState_scroll_down(Ui)) /\ ActiveKept(UiState_scroll_down(Ui))

\* the second window is focused and was set to its command by a digit key,
\* next to the pane the first window got before the focus left it
C18_Witness ==
    /\ pc = "loop"
    /\ last = "key"
    /\ ~file.exists
    /\ Len(windows) = 2
    /\ focused_window_index = 1
    /\ windows[2].active_process_index = 1
    /\ IsSome(windows[1].pty_terminal)
    /\ IsSome(windows[2].pty_terminal)
    /\ Unwrap(windows[2].pty_terminal).scroll_offset < 0

-----------------------------------------------------------------------------
(* Claims about the Procfile *)

ConfigLines == SelectSeq(parse.src, LAMBDA x : x.kind = "config")

\* the titles of the configuration lines, each once, in first-seen order
RECURSIVE FirstSeen(_, _, _)
FirstSeen(cs, i, acc) ==
    IF i > Len(cs) THEN acc
    ELSE FirstSeen(cs, i + 1,
                   IF \E k \in 1..Len(acc) : acc[k] = cs[i].title
                   THEN acc ELSE Append(acc, cs[i].title))

\* the group of one title: Disabled, then the title's commands in the order
\* of their lines, with the label default where the line has no bracket
GroupOf(t) ==
    LET mine == SelectSeq(ConfigLines, LAMBDA x : x.title = t)
    IN  [title |-> t,
         members |-> <<NullProcess>> \o
             [j \in 1..Len(mine) |->
                 [null |-> FALSE,
                  label |-> IF IsSome(mine[j].label)
                            THEN Unwrap(mine[j].label) ELSE DefaultLabel,
                  argv |-> trim(mine[j].cmd)]]]

\* C11: for every sequence of configuration lines Title[Label]: cmd (with
\* comment lines between them), parsing yields one group per distinct
\* title in first-seen order, whose members are Disabled followed by the
\* title's commands in first-seen order, the label default where no bracket
\* is given, and each line split at its first colon only.
C11_ParseGroupsInOrder ==
    (parse.status # "ready" /\ \A i \in 1..Len(parse.src) : parse.src[i].kind # "empty")
        => /\ parse.status = "ok"
           /\ parse.out = [i \in 1..Len(FirstSeen(ConfigLines, 1, <<>>)) |->
                              GroupOf(FirstSeen(ConfigLines, 1, <<>>)[i])]

\* three lines of two titles, the first title on the first and third line,
\* with and without a label, one command holding a colon
C11_Witness ==
    /\ parse.status = "ok"
    /\ Len(parse.src) = 3
    /\ parse.src[1].title = parse.src[3].title
    /\ parse.src[1].title # parse.src[2].title
    /\ IsSome(parse.src[1].label)
    /\ ~IsSome(parse.src[3].label)
    /\ contains_colon(parse.src[3].cmd)
    /\ Len(parse.out) = 2
    /\ Len(parse.out[1].members) = 3

-----------------------------------------------------------------------------
(* Claims about scrolling and persistence *)

ScrollDone == scroll.n > 0 /\ scroll.ups = scroll.n /\ scroll.downs = scroll.n

\* C5: scroll_up n times and then scroll_down n times on a pane at offset o
\* returns scroll_offset to o whenever no scroll_up call was turned down at
\* the scrollback boundary; the result differs from o only when one was.
C5_ScrollRoundTrip ==
    ScrollDone =>
        /\ ~scroll.clamped => scroll.pane.scroll_offset = scroll.origin
        /\ scroll.pane.scroll_offset # scroll.origin => scroll.clamped

\* two scroll_up calls from a scrolled pane, none turned down, and two
\* scroll_down calls
C5_Witness ==
    /\ ScrollDone
    /\ scroll.n >= 2
    /\ ~scroll.clamped
    /\ scroll.pane.scroll_offset = scroll.origin

\* C7: save_state followed by load_state into a newly constructed UiState
\* over the same groups gives the focused group title and, for every group,
\* the active member label that the session had when it saved.
C7_SaveLoadRoundTrip ==
    (pc = "loop" /\ last = "load" /\ IsSome(saved)) =>
        Snapshot(windows, focused_window_index) = Unwrap(saved)

\* the second window was focused and the first ran its second command
C7_Witness ==
    /\ pc = "loop"
    /\ last = "load"
    /\ IsSome(saved)
    /\ focused_window_index = 1
    /\ windows[1].active_process_index = 2
    /\ windows[2].active_process_index = 0

\* the indices of the windows titled t, and of the members of w labelled l
TitledWindows(ws, t) == {i \in 1..Len(ws) : ws[i].process_group.title = t}
LabelledMembers(w, l) ==
    {k \in 0..(Len(w.process_group.members) - 1) :
        Label(w.process_group.members[k + 1]) = l}

\* the entries of the file that name window w and a label of its group
KnownEntries(w) ==
    {i \in 1..Len(file.json.entries) :
        /\ file.json.entries[i][1] = w.process_group.title
        /\ LabelledMembers(w, file.json.entries[i][2]) # {}}

=============================================================================
